---- MODULE Spec2Model ----
(***************************************************************************)
(* A model of mjx/mujoco/mjx/_src/dataclasses.py: the pytree registration  *)
(* of dataclasses (field classification, flatten / unflatten), the path    *)
(* based tree_replace, and the masked compaction filter_k with fill.       *)
(*                                                                         *)
(* The four parts are independent pure computations, so each has its own   *)
(* specification over the shared variables: SpecFilter, SpecReplace,       *)
(* SpecFlatten and SpecClassify.  A specification draws the inputs of a    *)
(* call in its initial states and its actions perform the calls.           *)
(***************************************************************************)
EXTENDS Integers, Sequences, FiniteSets, TLC

VARIABLES
  pc,          \* which call has been performed
  tree,        \* filter_k / fill: the input pytree, a sequence of leaves
  mask,        \* filter_k: the boolean mask over the entity axis
  k,           \* filter_k: the output capacity
  out,         \* filter_k: the compacted pytree
  fill_mask,   \* filter_k: the returned fill mask; fill: the mask used
  default,     \* fill: the default pytree
  filled,      \* fill: the result
  base,        \* tree_replace: the record the call is made on (self)
  heap,        \* tree_replace: the list objects, by address
  heap0,       \* tree_replace: the list objects when the call was made
  params,      \* tree_replace: the dict of path -> value, in dict order
  result,      \* tree_replace: the returned record, or the exception raised
  field_type,  \* dataclass: a declared field type being written
  clz,         \* dataclass: the fields (name, declared type) of the class
  data_fields, \* dataclass: the fields registered as pytree children
  meta_fields, \* dataclass: the fields registered as static metadata
  inst,        \* flatten: the instance, a map from field names to values
  flat,        \* flatten: what iterate_clz_with_keys returned
  rebuilt      \* unflatten: what clz_from_iterable returned

filterVars == <<tree, mask, k, out, fill_mask, default, filled>>
replaceVars == <<base, heap, heap0, params, result>>
classVars == <<field_type, clz, data_fields, meta_fields>>
flattenVars == <<inst, flat, rebuilt>>
vars == <<pc, filterVars, replaceVars, classVars, flattenVars>>

(***************************************************************************)
(* Bounds of the model.                                                    *)
(***************************************************************************)
MaxN == 3      \* longest entity axis
MaxK == 3      \* largest capacity k
MaxVal == 2    \* finite leaf values are 1 .. MaxVal
MaxList == 2     \* longest list-valued field
MaxValLen == 3   \* longest value sequence given to tree_replace
MaxPathLen == 3  \* longest path string, in characters
MaxDepth == 3    \* deepest nesting of a declared field type
MaxSize == 2     \* most elements of a numpy array held by a static field

(***************************************************************************)
(* Array elements.  Leaves are floating point arrays, so an element is a   *)
(* finite number, +inf or NaN; arithmetic follows IEEE 754 on these.       *)
(* Negative numbers and -inf are not drawn.                                *)
(***************************************************************************)
Fin(n) == [k |-> "fin", v |-> n]
Inf == [k |-> "inf", v |-> 0]
NaN == [k |-> "nan", v |-> 0]

fadd(a, b) ==
  IF a.k = "nan" \/ b.k = "nan" THEN NaN
  ELSE IF a.k = "inf" \/ b.k = "inf" THEN Inf
  ELSE Fin(a.v + b.v)

fmul(a, b) ==
  IF a.k = "nan" \/ b.k = "nan" THEN NaN
  ELSE IF a.k = "inf" /\ b.k = "inf" THEN Inf
  ELSE IF a.k = "inf" THEN (IF b.v = 0 THEN NaN ELSE Inf)
  ELSE IF b.k = "inf" THEN (IF a.v = 0 THEN NaN ELSE Inf)
  ELSE Fin(a.v * b.v)

\* jp.array(mask, dtype=jp.int32), elementwise
b2i(b) == IF b THEN 1 ELSE 0

RECURSIVE SumTo(_, _)
SumTo(xs, i) == IF i = 0 THEN 0 ELSE SumTo(xs, i - 1) + xs[i]

\* jax.lax.associative_scan(jp.add, xs): the inclusive prefix sums
associative_scan(xs) == [i \in 1..Len(xs) |-> SumTo(xs, i)]

\* jp.arange(n), held in a 1-based sequence
arange(n) == [j \in 1..n |-> j - 1]

RECURSIVE SegAcc(_, _, _, _)
SegAcc(x, index, seg, i) ==
  IF i = 0 THEN Fin(0)
  ELSE IF index[i] = seg THEN fadd(SegAcc(x, index, seg, i - 1), x[i])
  ELSE SegAcc(x, index, seg, i - 1)

\* A segment sum that clips an out-of-range index to the last slot instead of
\* dropping it (scatter mode "clip").
segment_sum_clip(x, index, num_segments) ==
  [j \in 1..num_segments |->
     SegAcc(x,
            [i \in 1..Len(index) |->
               IF index[i] > num_segments - 1 THEN num_segments - 1
               ELSE index[i]],
            j - 1, Len(x))]

\* jax.ops.segment_sum(x, index, num_segments): slot seg is the sum of the
\* x[i] with index[i] = seg; an index outside [0, num_segments) is dropped.
segment_sum(x, index, num_segments) ==
  [j \in 1..num_segments |-> SegAcc(x, index, j - 1, Len(x))]

\* The destination index without the "- 1": the inclusive count used as is.
filter_index_inclusive(m, kk) ==
  LET index == associative_scan([i \in 1..Len(m) |-> b2i(m[i])])
  IN  [i \in 1..Len(m) |-> IF m[i] THEN index[i] ELSE kk + 1]

\* lines 181-185 of filter_k: the destination index of every entity
filter_index(m, kk) ==
  LET index == associative_scan([i \in 1..Len(m) |-> b2i(m[i])])
  IN  [i \in 1..Len(m) |-> IF m[i] THEN index[i] - 1 ELSE kk + 1]

\* lines 181-183 of filter_k: the fill mask
filter_fill_mask(m, kk) ==
  LET index == associative_scan([i \in 1..Len(m) |-> b2i(m[i])])
      last == index[Len(m)]
      lt == [j \in 1..kk |-> arange(kk)[j] < last]
  IN  [j \in 1..kk |-> (1 - b2i(lt[j])) # 0]

\* filter_k(tree, mask, k): jax.tree_map of the segment sum over the leaves
filter_k(t, m, kk) ==
  [tree |-> [l \in 1..Len(t) |-> segment_sum(t[l], filter_index(m, kk), kk)],
   fill_mask |-> filter_fill_mask(m, kk)]

\* _fill(x, d) of fill: (1 - mask) * x + mask * d along the entity axis
_fill(x, d, fm) ==
  [i \in 1..Len(x) |->
     fadd(fmul(Fin(1 - b2i(fm[i])), x[i]), fmul(Fin(b2i(fm[i])), d[i]))]

\* fill(tree, default, fill_mask): jax.tree_map(_fill, tree, default)
fill(t, d, fm) == [l \in 1..Len(t) |-> _fill(t[l], d[l], fm)]

(***************************************************************************)
(* SpecFilter: one filter_k call, then fill on its output; or fill called  *)
(* directly on the input tree with the mask as fill mask.                  *)
(* The tree has two leaves over the same entity axis: one of arbitrary     *)
(* values and one that numbers the entities, so that entities are told     *)
(* apart.                                                                  *)
(***************************************************************************)
EntVals == {Fin(n) : n \in 1..MaxVal} \cup {Inf}
DefVals == {Fin(0), Inf}
Arrays(n, S) == [1..n -> S]
Ids(n) == [i \in 1..n |-> Fin(i)]
Zeros(n) == [i \in 1..n |-> Fin(0)]

FilterIdle ==
  /\ tree = <<>> /\ mask = <<>> /\ k = 0 /\ out = <<>>
  /\ fill_mask = <<>> /\ default = <<>> /\ filled = <<>>

ReplaceIdle ==
  /\ base = <<>> /\ heap = <<>> /\ heap0 = <<>> /\ params = <<>>
  /\ result = <<>>

ClassIdle ==
  /\ field_type = <<>> /\ clz = <<>> /\ data_fields = <<>> /\ meta_fields = <<>>

FlattenIdle ==
  /\ inst = <<>> /\ flat = <<>> /\ rebuilt = <<>>

InitFilter ==
  /\ pc = "start"
  /\ \E n \in 1..MaxN :
       /\ \E a \in Arrays(n, EntVals) : tree = <<a, Ids(n)>>
       /\ mask \in Arrays(n, BOOLEAN)
  /\ k \in 0..MaxK
  /\ out = <<>>
  /\ fill_mask = <<>>
  /\ default = <<>>
  /\ filled = <<>>
  /\ ReplaceIdle
  /\ ClassIdle
  /\ FlattenIdle

FilterK ==
  /\ pc = "start"
  /\ pc' = "filtered"
  /\ out' = filter_k(tree, mask, k).tree
  /\ fill_mask' = filter_k(tree, mask, k).fill_mask
  /\ UNCHANGED <<tree, mask, k, default, filled, replaceVars, classVars, flattenVars>>

Fill ==
  /\ pc = "filtered"
  /\ pc' = "filled"
  /\ \E d \in Arrays(k, DefVals) : default' = <<d, Zeros(k)>>
  /\ filled' = fill(out, default', fill_mask)
  /\ UNCHANGED <<tree, mask, k, out, fill_mask, replaceVars, classVars, flattenVars>>

FillDirect ==
  /\ pc = "start"
  /\ pc' = "filled_direct"
  /\ fill_mask' = mask
  /\ \E d \in Arrays(Len(mask), DefVals) : default' = <<d, Zeros(Len(mask))>>
  /\ filled' = fill(tree, default', fill_mask')
  /\ UNCHANGED <<tree, mask, k, out, replaceVars, classVars, flattenVars>>

NextFilter == FilterK \/ Fill \/ FillDirect

SpecFilter == InitFilter /\ [][NextFilter]_vars

(***************************************************************************)
(* Claims about filter_k and fill.                                         *)
(***************************************************************************)
count_true(m) == Cardinality({i \in 1..Len(m) : m[i]})

\* the position of the j-th true entry of m (j counted from 1)
TrueIndex(m, j) ==
  CHOOSE i \in 1..Len(m) : m[i] /\ Cardinality({h \in 1..i : m[h]}) = j

\* C2: with m <= k true entries, output entity j of every leaf is the
\* entity at the j-th true index for every j < m, and the fill mask has
\* length k and is true exactly on [m, k).
C2_FilterKeepsMasked ==
  (pc = "filtered" /\ count_true(mask) <= k) =>
     /\ Len(fill_mask) = k
     /\ \A j \in 1..k : fill_mask[j] <=> (j - 1 >= count_true(mask))
     /\ \A l \in 1..Len(tree) :
          /\ Len(out[l]) = k
          /\ \A j \in 1..count_true(mask) :
               out[l][j] = tree[l][TrueIndex(mask, j)]

\* a compaction that moves entities: two true entries after a false one,
\* and a free slot left
C2_Witness ==
  /\ pc = "filtered"
  /\ count_true(mask) = 2
  /\ k = 3
  /\ ~mask[1]
  /\ fill_mask = <<FALSE, FALSE, TRUE>>

\* C2 (degenerate case): an all-false mask gives an all-true fill mask
C2_WitnessAllFalse ==
  pc = "filtered" /\ count_true(mask) = 0 /\ k > 0 /\ fill_mask = [j \in 1..k |-> TRUE]

\* C3: with more than k true entries, the output is exactly the first k
\* true-masked entities in index order, nothing else contributes to a slot,
\* and the fill mask is entirely false.
C3_FilterTruncates ==
  (pc = "filtered" /\ count_true(mask) > k) =>
     /\ Len(fill_mask) = k
     /\ \A j \in 1..k : ~fill_mask[j]
     /\ \A l \in 1..Len(tree) :
          /\ Len(out[l]) = k
          /\ \A j \in 1..k : out[l][j] = tree[l][TrueIndex(mask, j)]

\* a truncation: three true entries, capacity two
C3_Witness ==
  /\ pc = "filtered"
  /\ count_true(mask) = 3
  /\ k = 2
  /\ out[2] = <<Fin(1), Fin(2)>>

\* C4: fill is a select along the entity axis: position i of every leaf is
\* default's value where the fill mask is true and the tree's value where
\* it is false.
C4_FillSelects ==
  /\ pc = "filled" =>
       \A l \in 1..Len(out) : \A i \in 1..Len(out[l]) :
          filled[l][i] = IF fill_mask[i] THEN default[l][i] ELSE out[l][i]
  /\ pc = "filled_direct" =>
       \A l \in 1..Len(tree) : \A i \in 1..Len(tree[l]) :
          filled[l][i] = IF fill_mask[i] THEN default[l][i] ELSE tree[l][i]

\* what does hold of fill: the select at every position where the tree's
\* value and default's value are both finite
FillSelectsFiniteValues ==
  /\ pc = "filled" =>
       \A l \in 1..Len(out) : \A i \in 1..Len(out[l]) :
          (out[l][i].k = "fin" /\ default[l][i].k = "fin") =>
            filled[l][i] = IF fill_mask[i] THEN default[l][i] ELSE out[l][i]
  /\ pc = "filled_direct" =>
       \A l \in 1..Len(tree) : \A i \in 1..Len(tree[l]) :
          (tree[l][i].k = "fin" /\ default[l][i].k = "fin") =>
            filled[l][i] = IF fill_mask[i] THEN default[l][i] ELSE tree[l][i]

(***************************************************************************)
(* tree_replace.                                                           *)
(*                                                                         *)
(* Python values: an int, a sequence of ints (it has __iter__ and is       *)
(* indexed), a frozen dataclass instance (a map from field names to        *)
(* values), a list object (a reference into the heap, lists being the only *)
(* mutable objects here), or a raised exception.  A str is the sequence of *)
(* its characters, so a field name is a sequence of characters too.        *)
(***************************************************************************)
PInt(n) == [k |-> "int", v |-> n]
PSeq(xs) == [k |-> "seq", v |-> xs]
PObj(f) == [k |-> "obj", v |-> f]
PList(a) == [k |-> "list", v |-> a]
Raise(e) == [k |-> "raise", v |-> e]

\* k.split('.') of str: the pieces between the dots; "" gives [""]
RECURSIVE split(_)
split(str) ==
  IF \A i \in 1..Len(str) : str[i] # "." THEN <<str>>
  ELSE LET i == CHOOSE h \in 1..Len(str) :
                  str[h] = "." /\ \A g \in 1..(h - 1) : str[g] # "."
       IN  <<SubSeq(str, 1, i - 1)>> \o split(SubSeq(str, i + 1, Len(str)))

\* hasattr(obj, name), for the names that can be fields
hasattr(obj, name) == obj.k = "obj" /\ name \in DOMAIN obj.v

\* getattr(obj, name)
getattr(obj, name) ==
  IF hasattr(obj, name) THEN obj.v[name] ELSE Raise("AttributeError")

\* replace that forgets its updates: dataclasses.replace(self)
replace_noop(obj, name, val) ==
  IF obj.k # "obj" THEN Raise("AttributeError")
  ELSE IF name \notin DOMAIN obj.v THEN Raise("TypeError")
  ELSE obj

\* replace that takes any keyword: the name is set whether declared or not
replace_unchecked(obj, name, val) ==
  IF obj.k # "obj" THEN Raise("AttributeError")
  ELSE PObj((name :> val) @@ obj.v)

\* obj.replace(**{name: val}): dataclasses.replace on a dataclass instance
\* (a keyword that is no field is a TypeError of the constructor); anything
\* else has no replace method
replace(obj, name, val) ==
  IF obj.k # "obj" THEN Raise("AttributeError")
  ELSE IF name \notin DOMAIN obj.v THEN Raise("TypeError")
  ELSE PObj([obj.v EXCEPT ![name] = val])

\* line 153 without the indexing: the whole value for every element
elem_value_whole(val, i) == val

\* line 153: v = val if not hasattr(val, '__iter__') else val[i]
\* (i counts from 0; an index past the end is an IndexError)
elem_value(val, i) ==
  IF val.k # "seq" THEN val
  ELSE IF i + 1 <= Len(val.v) THEN val.v[i + 1]
  ELSE Raise("IndexError")

\* copy.deepcopy of the list at address a: a new list object with copies
\* of the elements (frozen instances of int fields, equal to the originals)
deepcopy(h, a) == [new |-> Len(h) + 1, h |-> Append(h, h[a])]

RECURSIVE _tree_replace(_, _, _, _)
RECURSIVE list_loop(_, _, _, _, _)

\* lines 150-154: the loop over the copied list, from position i (1-based)
list_loop(a, i, attr, val, h) ==
  IF i > Len(h[a]) THEN [r |-> PList(a), h |-> h]
  ELSE
    LET g == h[a][i] IN
    IF ~hasattr(g, attr[2]) THEN list_loop(a, i + 1, attr, val, h)
    ELSE
      LET v == elem_value(val, i - 1) IN
      IF v.k = "raise" THEN [r |-> v, h |-> h]
      ELSE
        LET sub == _tree_replace(g, Tail(attr), v, h) IN
        IF sub.r.k = "raise" THEN sub
        ELSE list_loop(a, i + 1, attr, val, [sub.h EXCEPT ![a][i] = sub.r])

\* _tree_replace(base, attr, val), lines 137-163
_tree_replace(b, attr, val, h) ==
  IF attr = <<>> THEN [r |-> b, h |-> h]
  ELSE IF Len(attr) > 1 /\ getattr(b, attr[1]).k = "raise"
    THEN [r |-> getattr(b, attr[1]), h |-> h]
  ELSE IF Len(attr) > 1 /\ getattr(b, attr[1]).k = "list" THEN
    LET c == deepcopy(h, getattr(b, attr[1]).v)
        lp == list_loop(c.new, 1, attr, val, c.h)
    IN  IF lp.r.k = "raise" THEN lp
        ELSE [r |-> replace(b, attr[1], lp.r), h |-> lp.h]
  ELSE IF Len(attr) = 1 THEN [r |-> replace(b, attr[1], val), h |-> h]
  ELSE
    LET sub == _tree_replace(getattr(b, attr[1]), Tail(attr), val, h) IN
    IF sub.r.k = "raise" THEN sub
    ELSE [r |-> replace(b, attr[1], sub.r), h |-> sub.h]

\* PyTreeNode.tree_replace(self, params), lines 128-134: the entries in dict
\* order, each on the record the previous one returned
RECURSIVE tree_replace(_, _, _)
tree_replace(self, ps, h) ==
  IF ps = <<>> THEN [r |-> self, h |-> h]
  ELSE
    LET new == _tree_replace(self, split(ps[1].key), ps[1].val, h) IN
    IF new.r.k = "raise" THEN new
    ELSE tree_replace(new.r, Tail(ps), new.h)

(***************************************************************************)
(* SpecReplace: one tree_replace call on a record of a class with a        *)
(* sub-record field s and a list-valued field l of sub-records; the        *)
(* sub-records have the int fields x and y.                                *)
(***************************************************************************)
Name(c) == <<c>>
GFields == {Name("x"), Name("y")}
BaseFields == {Name("s"), Name("l")}
G(x, y) == PObj((Name("x") :> PInt(x)) @@ (Name("y") :> PInt(y)))
Base(sub, lst) == PObj((Name("s") :> sub) @@ (Name("l") :> lst))

PathChars == {".", "l", "s", "x", "z"}
SeqsUpTo(S, n) == UNION {[1..m -> S] : m \in 0..n}
Paths == SeqsUpTo(PathChars, MaxPathLen)
NewInts == {PInt(5), PInt(6)}
Vals == {PInt(5)} \cup {PSeq(xs) : xs \in SeqsUpTo(NewInts, MaxValLen)}
Elems == {G(0, 0), G(1, 0)}

InitReplace ==
  /\ pc = "start"
  /\ base = Base(G(0, 0), PList(1))
  /\ \E lst \in SeqsUpTo(Elems, MaxList) : heap = <<lst>>
  /\ heap0 = heap
  /\ params = <<>>
  /\ result = <<>>
  /\ FilterIdle
  /\ ClassIdle
  /\ FlattenIdle

TreeReplace ==
  /\ pc = "start"
  /\ pc' = "replaced"
  /\ \/ params' = <<>>
     \/ \E p \in Paths, v \in Vals : params' = <<[key |-> p, val |-> v]>>
  /\ result' = tree_replace(base, params', heap).r
  /\ heap' = tree_replace(base, params', heap).h
  /\ UNCHANGED <<base, heap0, filterVars, classVars, flattenVars>>

NextReplace == TreeReplace

SpecReplace == InitReplace /\ [][NextReplace]_vars

(***************************************************************************)
(* Claims about tree_replace, each about a call with a single path.        *)
(***************************************************************************)
OneCall == pc = "replaced" /\ Len(params) = 1
path == params[1].key
val == params[1].val
ListPath(f) == Name("l") \o <<".">> \o f
orig_list == heap0[base.v[Name("l")].v]

\* C5: through the list-valued field, a scalar value replaces the addressed
\* field of every element, and a sequence as long as the list replaces the
\* field of element i by value[i]; nothing else changes.
C5_ListBroadcastOrElementwise ==
  \A f \in GFields :
    (/\ OneCall
     /\ path = ListPath(f)
     /\ val.k = "int" \/ (val.k = "seq" /\ Len(val.v) = Len(orig_list)))
    =>
     /\ result.k = "obj"
     /\ DOMAIN result.v = BaseFields
     /\ result.v[Name("s")] = base.v[Name("s")]
     /\ result.v[Name("l")].k = "list"
     /\ LET new == heap[result.v[Name("l")].v] IN
         /\ Len(new) = Len(orig_list)
         /\ \A i \in 1..Len(new) :
              /\ new[i].k = "obj"
              /\ DOMAIN new[i].v = GFields
              /\ new[i].v[f] = IF val.k = "int" THEN val ELSE val.v[i]
              /\ \A g \in GFields \ {f} : new[i].v[g] = orig_list[i].v[g]

\* an elementwise replacement over a list of two elements
C5_Witness ==
  /\ OneCall
  /\ path = ListPath(Name("x"))
  /\ val = PSeq(<<PInt(5), PInt(6)>>)
  /\ Len(orig_list) = 2
  /\ result.k = "obj"
  /\ heap[result.v[Name("l")].v][2].v[Name("x")] = PInt(6)

\* a broadcast of a scalar over a list of two elements
C5_WitnessScalar ==
  /\ OneCall
  /\ path = ListPath(Name("x"))
  /\ val = PInt(5)
  /\ Len(orig_list) = 2
  /\ result.k = "obj"
  /\ heap[result.v[Name("l")].v][2].v[Name("x")] = PInt(5)

\* C6: a value sequence whose length differs from the list's length makes
\* the call fail; it never returns a record.  Stated for a non-empty list,
\* where a returned record has used a prefix of the value sequence.
C6_LengthMismatchFails ==
  (/\ OneCall
   /\ path = ListPath(Name("x"))
   /\ val.k = "seq"
   /\ Len(orig_list) >= 1
   /\ Len(val.v) # Len(orig_list))
  => result.k = "raise"

\* some segment names no declared field at its level: the first is no field
\* of the record, or the second is no field of the sub-records, or a third
\* is looked up on an int
HasUnknownSegment(segs) ==
  \/ segs[1] \notin BaseFields
  \/ Len(segs) >= 2 /\ segs[2] \notin GFields
  \/ Len(segs) >= 3

\* C7 as claimed: a path with a segment that names no declared field at its
\* level makes the call fail, also when the segment is looked up on the
\* elements of the list-valued field.  Stated for a non-empty list, where
\* that lookup takes place.
C7_UnknownFieldFails ==
  (OneCall /\ Len(orig_list) >= 1 /\ HasUnknownSegment(split(path)))
  => result.k = "raise"

\* the second segment is looked up on the elements of the list-valued field
\* and no element has it (the list may be empty)
SkippedOnElements(segs) ==
  /\ Len(segs) >= 2
  /\ segs[1] = Name("l")
  /\ \A i \in DOMAIN orig_list : ~hasattr(orig_list[i], segs[2])

\* C7 as amended: a segment that names no declared field makes the call
\* fail, except when it is looked up on the elements of the list-valued
\* field: an element without it is skipped, and the call returns a record
\* whose sub-record and list elements are those of the original.
C7_UnknownFieldFailsExceptOnElements ==
  (OneCall /\ HasUnknownSegment(split(path))) =>
     IF SkippedOnElements(split(path))
     THEN /\ result.k = "obj"
          /\ DOMAIN result.v = BaseFields
          /\ result.v[Name("s")] = base.v[Name("s")]
          /\ result.v[Name("l")].k = "list"
          /\ heap[result.v[Name("l")].v] = orig_list
     ELSE result.k = "raise"

\* an undeclared field of the sub-record: the call raises
C7_Witness ==
  /\ OneCall
  /\ path = Name("s") \o <<".">> \o Name("z")
  /\ result = Raise("TypeError")

\* an undeclared field looked up on two list elements: a record is returned
C7_WitnessSkipped ==
  /\ OneCall
  /\ path = ListPath(Name("z"))
  /\ Len(orig_list) = 2
  /\ result.k = "obj"

\* C8: with the empty path string the call returns a record equal to the
\* one it was made on.
C8_EmptyPathIdentity ==
  (OneCall /\ path = <<>>) => result = base

\* C10: with a path that is one direct field f, the result has f = value
\* and every other field as before, and the record the call was made on,
\* with the lists it holds, is as it was.
C10_DirectFieldReplace ==
  (OneCall /\ path \in BaseFields) =>
     /\ result.k = "obj"
     /\ DOMAIN result.v = BaseFields
     /\ result.v[path] = val
     /\ \A f \in BaseFields \ {path} : result.v[f] = base.v[f]
     /\ base.v[Name("l")] = PList(1)
     /\ \A a \in DOMAIN heap0 : heap[a] = heap0[a]

\* the list-valued field replaced by a sequence, the old list non-empty
C10_Witness ==
  /\ OneCall
  /\ path = Name("l")
  /\ val = PSeq(<<PInt(5), PInt(6)>>)
  /\ result.k = "obj"
  /\ result.v[Name("l")] = val
  /\ Len(orig_list) = 2

(***************************************************************************)
(* dataclass(clz): the classification of the declared field types.         *)
(*                                                                         *)
(* A type is its kind and its arguments: jax.Array, int, np.ndarray and    *)
(* NoneType have none; a dataclass has the types of its fields; a generic  *)
(* alias (List[..], Dict[.., ..], Union[.., ..], Set[..], Tuple[.., ...])  *)
(* has its type arguments.                                                 *)
(***************************************************************************)
T(kind, args) == [k |-> kind, v |-> args]
TArray == T("jax.Array", <<>>)
TInt == T("int", <<>>)
TNdarray == T("np.ndarray", <<>>)
TNone == T("NoneType", <<>>)

\* dataclasses.is_dataclass(typ)
is_dataclass(typ) == typ.k = "dataclass"

\* typing.get_origin(typ): the origin of a generic alias, else None
get_origin(typ) ==
  IF typ.k \in {"list", "dict", "Union", "set", "tuple"} THEN typ.k
  ELSE "None"

\* typing.get_args(typ), and the field types of a dataclass
get_args(typ) == typ.v

\* _jax_in_args with set left out of the origins looked into
RECURSIVE _jax_in_args_no_set(_)
_jax_in_args_no_set(typ) ==
  IF typ = TArray THEN TRUE
  ELSE IF is_dataclass(typ)
    THEN \E i \in DOMAIN get_args(typ) : _jax_in_args_no_set(get_args(typ)[i])
  ELSE IF get_origin(typ) \in {"list", "dict", "Union"}
    THEN \E i \in DOMAIN get_args(typ) : _jax_in_args_no_set(get_args(typ)[i])
  ELSE FALSE

\* _jax_in_args(typ), lines 28-35
RECURSIVE _jax_in_args(_)
_jax_in_args(typ) ==
  IF typ = TArray THEN TRUE
  ELSE IF is_dataclass(typ)
    THEN \E i \in DOMAIN get_args(typ) : _jax_in_args(get_args(typ)[i])
  ELSE IF get_origin(typ) \in {"list", "dict", "Union", "set"}
    THEN \E i \in DOMAIN get_args(typ) : _jax_in_args(get_args(typ)[i])
  ELSE FALSE

\* lines 52-57 of dataclass: the fields in declared order, each appended to
\* data_fields or to meta_fields
dataclass(fields) ==
  [data_fields |-> SelectSeq(fields, LAMBDA f : _jax_in_args(f.type)),
   meta_fields |-> SelectSeq(fields, LAMBDA f : ~_jax_in_args(f.type))]

(***************************************************************************)
(* SpecClassify: a declared type is written by wrapping a leaf type up to  *)
(* MaxDepth times, then a class with a field of that type and a second     *)
(* field of a leaf type is registered.                                     *)
(***************************************************************************)
LeafTypes == {TArray, TInt, TNdarray}

Wrappings(t) ==
  { T("list", <<t>>), T("set", <<t>>), T("tuple", <<t>>),
    T("dict", <<TInt, t>>), T("Union", <<t, TNone>>),
    T("dataclass", <<TInt, t>>) }

RECURSIVE Depth(_)
Depth(t) ==
  IF t.v = <<>> THEN 0
  ELSE LET ds == {Depth(t.v[i]) : i \in DOMAIN t.v}
       IN  1 + CHOOSE d \in ds : \A e \in ds : e <= d

Field(name, type) == [name |-> name, type |-> type]

InitClassify ==
  /\ pc = "declaring"
  /\ field_type \in LeafTypes
  /\ clz = <<>>
  /\ data_fields = <<>>
  /\ meta_fields = <<>>
  /\ FilterIdle
  /\ ReplaceIdle
  /\ FlattenIdle

Wrap ==
  /\ pc = "declaring"
  /\ Depth(field_type) < MaxDepth
  /\ field_type' \in Wrappings(field_type)
  /\ UNCHANGED <<pc, clz, data_fields, meta_fields>>
  /\ UNCHANGED <<filterVars, replaceVars, flattenVars>>

Register ==
  /\ pc = "declaring"
  /\ pc' = "registered"
  /\ \E t2 \in LeafTypes :
       clz' = <<Field(Name("f"), field_type), Field(Name("g"), t2)>>
  /\ data_fields' = dataclass(clz').data_fields
  /\ meta_fields' = dataclass(clz').meta_fields
  /\ UNCHANGED <<field_type, filterVars, replaceVars, flattenVars>>

NextClassify == Wrap \/ Register

SpecClassify == InitClassify /\ [][NextClassify]_vars

(***************************************************************************)
(* Claims about the classification.                                        *)
(***************************************************************************)
InSeq(x, xs) == \E i \in DOMAIN xs : xs[i] = x

\* the types reached from t by going into the arguments of types of the
\* given kinds only, in at most n steps
RECURSIVE ReachedThrough(_, _, _)
ReachedThrough(ts, kinds, n) ==
  IF n = 0 THEN ts
  ELSE ReachedThrough(
         ts \cup UNION {{u.v[i] : i \in DOMAIN u.v} : u \in {w \in ts : w.k \in kinds}},
         kinds, n - 1)

ContainsArrayThrough(t, kinds) ==
  TArray \in ReachedThrough({t}, kinds, Depth(t))

\* C9 as claimed: every field is in exactly one of dynamic and static, and
\* it is dynamic iff its declared type is the array type or contains it
\* through nested records, sequences (list, set, tuple), mappings or unions.
C9_DynamicIffContainsArray ==
  pc = "registered" =>
    \A i \in DOMAIN clz :
      /\ InSeq(clz[i], data_fields) # InSeq(clz[i], meta_fields)
      /\ InSeq(clz[i], data_fields) <=>
           ContainsArrayThrough(clz[i].type,
             {"dataclass", "list", "set", "tuple", "dict", "Union"})

\* C9 as amended: the containers looked into are dataclasses and the
\* generic aliases of list, dict, set and Union; a tuple type is static
\* whatever its arguments.
C9_DynamicIffContainsArrayNoTuple ==
  pc = "registered" =>
    \A i \in DOMAIN clz :
      /\ InSeq(clz[i], data_fields) # InSeq(clz[i], meta_fields)
      /\ InSeq(clz[i], data_fields) <=>
           ContainsArrayThrough(clz[i].type,
             {"dataclass", "list", "set", "dict", "Union"})

\* a field of type Set[Dict[int, Optional[jax.Array]]] registered as dynamic
\* beside an int field registered as static
C9_Witness ==
  /\ pc = "registered"
  /\ clz[1].type =
       T("set", <<T("dict", <<TInt, T("Union", <<TArray, TNone>>)>>)>>)
  /\ clz[2].type = TInt
  /\ data_fields = <<clz[1]>>
  /\ meta_fields = <<clz[2]>>

(***************************************************************************)
(* iterate_clz_with_keys and clz_from_iterable, the flatten / unflatten    *)
(* pair registered for the class.                                          *)
(*                                                                         *)
(* Further Python values: None, a jax array, a numpy array (its elements   *)
(* in C order, its dtype and its shape), bytes, a dtype, a shape, a tuple. *)
(***************************************************************************)
PNone == [k |-> "None", v |-> 0]
JaxArray(xs) == [k |-> "jax.Array", v |-> xs]
NdArray(xs, dtype, shape) ==
  [k |-> "np.ndarray", v |-> [data |-> xs, dtype |-> dtype, shape |-> shape]]
PBytes(bs) == [k |-> "bytes", v |-> bs]
PDtype(d) == [k |-> "dtype", v |-> d]
PShape(sh) == [k |-> "shape", v |-> sh]
PTuple(xs) == [k |-> "tuple", v |-> xs]

\* bytes per element of a dtype
itemsize(dtype) == IF dtype = "uint8" THEN 1 ELSE 2

RECURSIVE Pow256(_)
Pow256(n) == IF n = 0 THEN 1 ELSE 256 * Pow256(n - 1)

RECURSIVE Prod(_)
Prod(sh) == IF sh = <<>> THEN 1 ELSE Head(sh) * Prod(Tail(sh))

\* val.tobytes(): the elements in C order, each little-endian
tobytes(arr) ==
  LET w == itemsize(arr.v.dtype) IN
  [i \in 1..(w * Len(arr.v.data)) |->
     (arr.v.data[((i - 1) \div w) + 1] \div Pow256((i - 1) % w)) % 256]

RECURSIVE DecodeLE(_, _, _)
DecodeLE(bs, first, w) ==
  IF w = 0 THEN 0 ELSE bs[first] + 256 * DecodeLE(bs, first + 1, w - 1)

\* np.frombuffer(buffer, dtype=dtype): a one-dimensional array over the
\* bytes; a buffer that is no whole number of elements is a ValueError
frombuffer(bs, dtype) ==
  LET w == itemsize(dtype) IN
  IF Len(bs) % w # 0 THEN Raise("ValueError")
  ELSE NdArray([i \in 1..(Len(bs) \div w) |-> DecodeLE(bs, (i - 1) * w + 1, w)],
               dtype, <<Len(bs) \div w>>)

\* arr.reshape(shape)
reshape(arr, shape) ==
  IF arr.k = "raise" THEN arr
  ELSE IF Prod(shape) # Len(arr.v.data) THEN Raise("ValueError")
  ELSE NdArray(arr.v.data, arr.v.dtype, shape)

\* to_meta(field, obj), lines 66-72
to_meta(field, obj) ==
  LET value == getattr(obj, field.name) IN
  IF value.k = "np.ndarray"
  THEN PTuple(<<PBytes(tobytes(value)), PDtype(value.v.dtype),
                PShape(value.v.shape)>>)
  ELSE value

\* to_data(field, obj), lines 74-75: the key and the value
to_data(field, obj) == [key |-> field.name, value |-> getattr(obj, field.name)]

\* iterate_clz_with_keys(x), lines 65-79
iterate_clz_with_keys(x) ==
  [data |-> [i \in DOMAIN data_fields |-> to_data(data_fields[i], x)],
   meta |-> [i \in DOMAIN meta_fields |-> to_meta(meta_fields[i], x)]]

\* from_meta(field, meta), lines 83-88: the name and the value; indexing a
\* value that is no tuple is a TypeError
from_meta(field, meta) ==
  IF field.type = TNdarray
  THEN IF meta.k # "tuple" THEN [name |-> field.name, value |-> Raise("TypeError")]
       ELSE [name |-> field.name,
             value |-> reshape(frombuffer(meta.v[1].v, meta.v[2].v), meta.v[3].v)]
  ELSE [name |-> field.name, value |-> meta]

\* from_data, line 90
from_data(field, meta) == [name |-> field.name, value |-> meta]

Min(a, b) == IF a <= b THEN a ELSE b

\* data_clz(**dict(args)): an exception met while the arguments were made
\* propagates; an argument missing is a TypeError of the constructor
construct(args) ==
  IF \E i \in DOMAIN args : args[i].value.k = "raise"
  THEN args[CHOOSE i \in DOMAIN args :
              /\ args[i].value.k = "raise"
              /\ \A j \in 1..(i - 1) : args[j].value.k # "raise"].value
  ELSE IF {args[i].name : i \in DOMAIN args} # {clz[i].name : i \in DOMAIN clz}
  THEN Raise("TypeError")
  ELSE PObj([nm \in {args[i].name : i \in DOMAIN args} |->
               args[CHOOSE i \in DOMAIN args :
                      /\ args[i].name = nm
                      /\ \A j \in DOMAIN args : args[j].name = nm => j <= i].value])

\* clz_from_iterable(meta, data), lines 81-95; zip stops at the shorter
clz_from_iterable(meta, data) ==
  LET meta_args == [i \in 1..Min(Len(meta_fields), Len(meta)) |->
                      from_meta(meta_fields[i], meta[i])]
      data_args == [i \in 1..Min(Len(data_fields), Len(data)) |->
                      from_data(data_fields[i], data[i])]
  IN  construct(meta_args \o data_args)

(***************************************************************************)
(* SpecFlatten: a registered class with an int field n, a jax array field  *)
(* q, a numpy array field a and an Optional[np.ndarray] field o; an        *)
(* instance whose values have the declared types is flattened and then     *)
(* rebuilt from the leaves and the metadata, as jax.tree_util does.        *)
(***************************************************************************)
RecClass ==
  << Field(Name("n"), TInt), Field(Name("q"), TArray),
     Field(Name("a"), TNdarray),
     Field(Name("o"), T("Union", <<TNdarray, TNone>>)) >>

Elements(dtype) == IF dtype = "uint8" THEN {1, 255} ELSE {1, 258}

NdArrays ==
  UNION { UNION { { NdArray(xs, dtype, <<n>>), NdArray(xs, dtype, <<1, n>>) }
                  : xs \in [1..n -> Elements(dtype)] }
          : n \in 0..MaxSize, dtype \in {"uint8", "uint16"} }

Instances ==
  { PObj((Name("n") :> n) @@ (Name("q") :> q) @@ (Name("a") :> a)
         @@ (Name("o") :> o)) :
      n \in {PInt(0), PInt(1)},
      q \in {JaxArray(<<1>>), JaxArray(<<1, 2>>)},
      a \in NdArrays,
      o \in NdArrays \cup {PNone} }

InitFlatten ==
  /\ pc = "registered"
  /\ field_type = <<>>
  /\ clz = RecClass
  /\ data_fields = dataclass(RecClass).data_fields
  /\ meta_fields = dataclass(RecClass).meta_fields
  /\ inst \in Instances
  /\ flat = <<>>
  /\ rebuilt = <<>>
  /\ FilterIdle
  /\ ReplaceIdle

Flatten ==
  /\ pc = "registered"
  /\ pc' = "flattened"
  /\ flat' = iterate_clz_with_keys(inst)
  /\ UNCHANGED <<inst, rebuilt, classVars, filterVars, replaceVars>>

Unflatten ==
  /\ pc = "flattened"
  /\ pc' = "rebuilt"
  /\ rebuilt' = clz_from_iterable(flat.meta,
                                  [i \in DOMAIN flat.data |-> flat.data[i].value])
  /\ UNCHANGED <<inst, flat, classVars, filterVars, replaceVars>>

NextFlatten == Flatten \/ Unflatten

SpecFlatten == InitFlatten /\ [][NextFlatten]_vars

(***************************************************************************)
(* Claims about the flatten / unflatten pair.                              *)
(***************************************************************************)
\* C1: flattening an instance and rebuilding it from the leaves and the
\* metadata gives a record equal to it, field by field, static numpy array
\* fields included.
C1_RoundTrip ==
  pc = "rebuilt" => rebuilt = inst

\* the round trip restricted to the fields whose declared type is exactly
\* np.ndarray, int or jax.Array: these come back as they were
RoundTripOfExactlyTypedFields ==
  pc = "rebuilt" =>
     /\ rebuilt.k = "obj"
     /\ \A nm \in {Name("n"), Name("q"), Name("a")} :
          rebuilt.v[nm] = inst.v[nm]

====
